---- MODULE Spec2Model ----
(***************************************************************************)
(* Model of the FTP server of src/main.rs: the sessions (struct Client),   *)
(* the command handlers of Client::handle_cmd, the path resolver           *)
(* Client::complete_path and the passive data channel, over a small file   *)
(* system.  A handler is one step, except Command::Pasv, which blocks in   *)
(* accept.  Spec has one client send commands with every path of up to     *)
(* MaxArgLen segments, and the lines and ends of stream at which           *)
(* read_all_message and Command::new end the session; SpecTwo has two      *)
(* clients send commands that use the shared directory tree and the shared *)
(* passive port.                                                           *)
(*                                                                         *)
(* A file-system location is the sequence of its names from "/": <<>> is   *)
(* "/", <<"srv">> is the server root.  A std::path::Path is a record       *)
(* [abs, comps]: whether it starts with "/", and its segments as written   *)
(* (names, "..", "."); a trailing slash is kept as a final "." segment,    *)
(* which the operating system resolves in the same way.                    *)
(***************************************************************************)
EXTENDS Integers, Sequences, FiniteSets, TLC

\* ---------------------------------------------------------------- bounds
MaxDepth == 2
MaxArgLen == 2

\* ------------------------------------------------------- reply codes
DataConnectionAlreadyOpen == 125
Ok == 200
ClosingDataConnection == 226
EnteringPassiveMode == 227
UserLoggedIn == 230
RequestedFileActionOkay == 250
PATHNAMECreated == 257
ServiceNotAvailable == 421
ConnectionClosed == 426
InvalidParameterOrArgument == 501
CommandNotImplemented == 502
FileNotFound == 550

\* ------------------------------------------------------- the universe
Sessions == {"s1", "s2"}
None == "none"
UserNames == {"", "bob"}

\* env::current_dir() of the server process, while that directory exists
ServerRoot == <<"srv">>
\* a directory outside the server root
Outside == <<"etc">>
\* a regular file and a symbolic link (to Outside) in the server root
Files == {<<"srv", "f">>}
Links == {<<"srv", "l">>}
LinkTarget(l) == Outside

Segments == {"a", "f", "l", ".."}

RECURSIVE SeqsUpTo(_, _)
SeqsUpTo(S, n) ==
    IF n = 0 THEN {<<>>}
    ELSE LET shorter == SeqsUpTo(S, n - 1)
         IN  shorter \cup {Append(q, x) : q \in shorter, x \in S}

\* the arguments a client sends with CWD, MKD, RMD, LIST
ClientPaths == {[abs |-> b, comps |-> q] : b \in BOOLEAN, q \in SeqsUpTo(Segments, MaxArgLen)}

\* the arguments sent while two clients are at work
FewPaths == {[abs |-> b, comps |-> q] : b \in BOOLEAN, q \in {<<>>, <<"a">>, <<"..">>}}

\* the directories MKD may create in the model: a chain a, a/a, ... below the root
RECURSIVE Chain(_)
Chain(n) == IF n = 0 THEN ServerRoot ELSE Append(Chain(n - 1), "a")
Creatable == {Chain(n) : n \in 1..MaxDepth}

VARIABLES dirs, cwd, name, data_writer, pc, wants, last

vars == <<dirs, cwd, name, data_writer, pc, wants, last>>

\* ------------------------------------------------------- std::path
IsPrefix(p, q) == Len(p) =< Len(q) /\ SubSeq(q, 1, Len(p)) = p

Front(q) == SubSeq(q, 1, Len(q) - 1)

PathBuf(b, q) == [abs |-> b, comps |-> q]

RECURSIVE DropDots(_)
DropDots(q) ==
    IF q = <<>> THEN <<>>
    ELSE IF Head(q) = "." THEN DropDots(Tail(q))
    ELSE <<Head(q)>> \o DropDots(Tail(q))

\* Path::components: "." segments are skipped, except a leading one of a relative path
Components(p) ==
    IF ~p.abs /\ p.comps # <<>> /\ Head(p.comps) = "."
    THEN <<".">> \o DropDots(Tail(p.comps))
    ELSE DropDots(p.comps)

\* Path::join / PathBuf::push
Join(base, p) ==
    IF p.abs THEN p
    ELSE IF p.comps = <<>>
         THEN IF base.comps = <<>> \/ base.comps[Len(base.comps)] = "."
              THEN base
              ELSE PathBuf(base.abs, Append(base.comps, "."))
         ELSE PathBuf(base.abs, base.comps \o p.comps)

\* Path::parent: None for "/" and for the empty path
HasParent(p) == Components(p) # <<>>
Parent(p) == PathBuf(p.abs, Front(Components(p)))

\* Path::file_name: None unless the last component is a name
HasFileName(p) ==
    /\ Components(p) # <<>>
    /\ Components(p)[Len(Components(p))] \notin {".", ".."}
FileName(p) == Components(p)[Len(Components(p))]

\* path.iter().skip(1).collect() of a path that has_root
SkipRoot(p) == PathBuf(FALSE, Components(p))

\* ------------------------------------------------------- the file system
Exists(fs, loc) ==
    \/ loc \in fs
    \/ loc \in Files /\ Front(loc) \in fs
    \/ loc \in Links /\ Front(loc) \in fs

IsDir(fs, loc) == loc \in fs

Failed == [ok |-> FALSE, path |-> <<>>, kind |-> "NotFound"]
Denied == [ok |-> FALSE, path |-> <<>>, kind |-> "PermissionDenied"]
Resolved(loc) == [ok |-> TRUE, path |-> loc, kind |-> "Ok"]

\* a canonicalize that takes a link for the directory it names
RECURSIVE Walk_KeepsLinks(_, _, _)
Walk_KeepsLinks(fs, cur, rest) ==
    IF rest = <<>> THEN [ok |-> TRUE, path |-> cur, kind |-> "Ok"]
    ELSE LET c == Head(rest)
             nxt == Append(cur, c)
         IN  IF c = "." THEN Walk_KeepsLinks(fs, cur, Tail(rest))
             ELSE IF c = ".."
                  THEN Walk_KeepsLinks(fs, IF cur = <<>> THEN cur ELSE Front(cur), Tail(rest))
             ELSE IF Exists(fs, nxt) THEN Walk_KeepsLinks(fs, nxt, Tail(rest))
             ELSE [ok |-> FALSE, path |-> <<>>, kind |-> "NotFound"]

\* fs::canonicalize (realpath) of the absolute path with segments rest, from cur
RECURSIVE Walk(_, _, _)
Walk(fs, cur, rest) ==
    IF rest = <<>> THEN Resolved(cur)
    ELSE IF cur \notin fs THEN Failed
    ELSE LET c == Head(rest)
             nxt == Append(cur, c)
         IN  IF c = "." THEN Walk(fs, cur, Tail(rest))
             ELSE IF c = ".." THEN Walk(fs, IF cur = <<>> THEN cur ELSE Front(cur), Tail(rest))
             ELSE IF nxt \in fs THEN Walk(fs, nxt, Tail(rest))
             ELSE IF nxt \in Files THEN Walk(fs, nxt, Tail(rest))
             ELSE IF nxt \in Links /\ LinkTarget(nxt) \in fs
                  THEN Walk(fs, LinkTarget(nxt), Tail(rest))
             ELSE Failed

canonicalize(fs, p) == Walk(fs, <<>>, p.comps)

\* Path::starts_with, on canonical locations
starts_with(loc, base) == IsPrefix(base, loc)

\* a complete_path without the starts_with test
complete_path_Unchecked(fs, path, server_root) ==
    canonicalize(fs, Join(PathBuf(TRUE, server_root),
                          IF path.abs THEN SkipRoot(path) ELSE path))

\* Client::complete_path
complete_path(fs, path, server_root) ==
    LET directory == Join(PathBuf(TRUE, server_root),
                          IF path.abs THEN SkipRoot(path) ELSE path)
        dir == canonicalize(fs, directory)
    IN  IF dir.ok /\ ~starts_with(dir.path, server_root) THEN Denied ELSE dir

\* Path::strip_prefix of a canonical location below base
strip_prefix(loc, base) == PathBuf(FALSE, SubSeq(loc, Len(base) + 1, Len(loc)))

\* fs::read_dir: the entries of a directory
Entries(fs, loc) ==
    {e \in fs \cup Files \cup Links : Len(e) = Len(loc) + 1 /\ IsPrefix(loc, e) /\ Exists(fs, e)}

\* fs::remove_dir_all
remove_dir_all(fs, loc) == {d \in fs : ~IsPrefix(loc, d)}

\* add_file_info writes a line unless fs::metadata (which follows links) fails
HasMetadata(fs, e) == Exists(fs, e) /\ (e \in Links => LinkTarget(e) \in fs)

\* ------------------------------------------------------- the sessions
\* what the last command did: the session, the verb, the outcome of
\* complete_path, the reply codes written to the control connection and the
\* entries whose lines were written to the data connection, in order
Did(s, cmd, kind, codes, data) ==
    [s |-> s, cmd |-> cmd, kind |-> kind, codes |-> codes, data |-> data]

Init ==
    /\ dirs = {<<>>, Outside, ServerRoot}
    /\ cwd = [s \in Sessions |-> PathBuf(TRUE, <<>>)]
    /\ name = [s \in Sessions |-> None]
    /\ data_writer = [s \in Sessions |-> None]
    /\ pc = [s \in Sessions |-> "ready"]
    /\ wants = [s \in Sessions |-> FALSE]
    /\ last = Did(None, "-", "-", <<>>, <<>>)

\* a command loop that reads the next line while its PASV is still in accept
Ready_InAccept(s) == pc[s] \in {"ready", "accept"}

\* handle_client is at read_all_message
Ready(s) == pc[s] = "ready"

\* env::current_dir().unwrap() panics once the process's directory is removed
RootGone == ServerRoot \notin dirs

Panic(s, cmd) ==
    /\ pc' = [pc EXCEPT ![s] = "dead"]
    /\ last' = Did(s, cmd, "-", <<>>, <<>>)
    /\ UNCHANGED <<dirs, cwd, name, data_writer, wants>>

\* a handler that only replies
Reply(s, cmd, kind, codes) ==
    /\ last' = Did(s, cmd, kind, codes, <<>>)
    /\ UNCHANGED <<dirs, cwd, name, data_writer, pc, wants>>

\* Client::cwd: the resolution of the target, and self.cwd afterwards
cwd_target(fs, c, directory) == complete_path(fs, Join(c, directory), ServerRoot)

cwd_after(fs, c, directory) ==
    LET dir == cwd_target(fs, c, directory)
        prefix == strip_prefix(dir.path, ServerRoot)
    IN  IF ~dir.ok THEN c
        ELSE IF prefix.comps = <<>> THEN PathBuf(TRUE, <<>>)
        ELSE prefix

Cwd(s, directory) ==
    /\ Ready(s)
    /\ IF RootGone THEN Panic(s, "CWD")
       ELSE LET dir == cwd_target(dirs, cwd[s], directory)
            IN  /\ cwd' = [cwd EXCEPT ![s] = cwd_after(dirs, cwd[s], directory)]
                /\ last' = Did(s, "CWD", dir.kind,
                               IF dir.ok THEN <<Ok>> ELSE <<FileNotFound>>, <<>>)
                /\ UNCHANGED <<dirs, name, data_writer, pc, wants>>

\* Command::CdUp: self.cwd afterwards
cdup_after(c) == IF HasParent(c) THEN Parent(c) ELSE c

CdUp(s) ==
    /\ Ready(s)
    /\ cwd' = [cwd EXCEPT ![s] = cdup_after(cwd[s])]
    /\ last' = Did(s, "CDUP", "-", <<Ok>>, <<>>)
    /\ UNCHANGED <<dirs, name, data_writer, pc, wants>>

\* Client::mkd: the resolution of the parent, and the location given to create_dir
mkd_parent(fs, c, arg) ==
    IF HasParent(Join(c, arg))
    THEN complete_path(fs, Parent(Join(c, arg)), ServerRoot)
    ELSE [ok |-> FALSE, path |-> <<>>, kind |-> "-"]

mkd_target(fs, c, arg) == Append(mkd_parent(fs, c, arg).path, FileName(Join(c, arg)))

mkd_creates(fs, c, arg) ==
    /\ mkd_parent(fs, c, arg).ok
    /\ IsDir(fs, mkd_parent(fs, c, arg).path)
    /\ HasFileName(Join(c, arg))
    /\ ~Exists(fs, mkd_target(fs, c, arg))

\* the model creates no directory outside Creatable
Mkd(s, arg) ==
    /\ Ready(s)
    /\ IF RootGone THEN Panic(s, "MKD")
       ELSE IF mkd_creates(dirs, cwd[s], arg)
            THEN /\ mkd_target(dirs, cwd[s], arg) \in Creatable
                 /\ dirs' = dirs \cup {mkd_target(dirs, cwd[s], arg)}
                 /\ last' = Did(s, "MKD", "Ok", <<PATHNAMECreated>>, <<>>)
                 /\ UNCHANGED <<cwd, name, data_writer, pc, wants>>
            ELSE Reply(s, "MKD", mkd_parent(dirs, cwd[s], arg).kind, <<FileNotFound>>)

\* Client::rmd: the resolution of the target
rmd_target(fs, c, arg) == complete_path(fs, arg, ServerRoot)

rmd_removes(fs, c, arg) == rmd_target(fs, c, arg).ok /\ IsDir(fs, rmd_target(fs, c, arg).path)

Rmd(s, arg) ==
    /\ Ready(s)
    /\ IF RootGone THEN Panic(s, "RMD")
       ELSE IF rmd_removes(dirs, cwd[s], arg)
            THEN /\ dirs' = remove_dir_all(dirs, rmd_target(dirs, cwd[s], arg).path)
                 /\ last' = Did(s, "RMD", "Ok", <<RequestedFileActionOkay>>, <<>>)
                 /\ UNCHANGED <<cwd, name, data_writer, pc, wants>>
            ELSE Reply(s, "RMD", rmd_target(dirs, cwd[s], arg).kind, <<FileNotFound>>)

\* the directory tree after Client::mkd and after Client::rmd
mkd_after(fs, c, arg) ==
    IF mkd_creates(fs, c, arg) THEN fs \cup {mkd_target(fs, c, arg)} ELSE fs

rmd_after(fs, c, arg) ==
    IF rmd_removes(fs, c, arg) THEN remove_dir_all(fs, rmd_target(fs, c, arg).path) ELSE fs

\* the orders in which read_dir may yield the entries S
Orders(S) ==
    {q \in [1..Cardinality(S) -> S] : \A i, j \in 1..Cardinality(S) : q[i] = q[j] => i = j}

\* the loop of Command::List: after each entry, all of `out` so far is sent
RECURSIVE ListLoop(_, _, _)
ListLoop(fs, order, n) ==
    IF n = 0 THEN <<>>
    ELSE ListLoop(fs, order, n - 1)
         \o SelectSeq(SubSeq(order, 1, n), LAMBDA e : HasMetadata(fs, e))

\* LIST without an argument lists "."
DefaultList == PathBuf(FALSE, <<".">>)

\* a Command::List that clears data_writer only after a listing
List_KeepsChannel(s, arg) ==
    /\ pc[s] = "ready"
    /\ ServerRoot \in dirs
    /\ data_writer[s] # None
    /\ LET real_path == complete_path(dirs, Join(cwd[s], arg), ServerRoot)
       IN  /\ data_writer' = [data_writer EXCEPT ![s] = IF real_path.ok THEN None ELSE @]
           /\ last' = [s |-> s, cmd |-> "LIST", kind |-> real_path.kind,
                       codes |-> <<DataConnectionAlreadyOpen, ClosingDataConnection>>,
                       data |-> <<>>]
    /\ UNCHANGED <<dirs, cwd, name, pc, wants>>

\* Command::List: the resolution of the target
list_target(fs, c, arg) == complete_path(fs, Join(c, arg), ServerRoot)

List(s, arg) ==
    /\ Ready(s)
    /\ IF RootGone THEN Panic(s, "LIST")
       ELSE LET real_path == list_target(dirs, cwd[s], arg)
            IN  IF data_writer[s] # None
                THEN /\ data_writer' = [data_writer EXCEPT ![s] = None]
                     /\ IF real_path.ok /\ IsDir(dirs, real_path.path)
                        THEN \E order \in Orders(Entries(dirs, real_path.path)) :
                                last' = Did(s, "LIST", real_path.kind,
                                            <<DataConnectionAlreadyOpen, ClosingDataConnection>>,
                                            ListLoop(dirs, order, Len(order)))
                        ELSE last' = Did(s, "LIST", real_path.kind,
                                         <<DataConnectionAlreadyOpen, ClosingDataConnection>>,
                                         <<>>)
                     /\ UNCHANGED <<dirs, cwd, name, pc, wants>>
                ELSE Reply(s, "LIST", real_path.kind, <<ConnectionClosed>>)

\* a listener of another session holds the passive port 43210
PortBusy(s) == \E t \in Sessions \ {s} : pc[t] = "accept"

\* a Command::Pasv that listens whether or not a channel is open
Pasv_Reopens(s) ==
    /\ pc[s] = "ready"
    /\ wants' = [wants EXCEPT ![s] = TRUE]
    /\ pc' = [pc EXCEPT ![s] = IF PortBusy(s) THEN "dead" ELSE "accept"]
    /\ last' = [s |-> s, cmd |-> "PASV", kind |-> "-", codes |-> <<EnteringPassiveMode>>,
                data |-> <<>>]
    /\ UNCHANGED <<dirs, cwd, name, data_writer>>

\* Command::Pasv, up to the blocking accept
Pasv(s) ==
    /\ Ready(s)
    /\ IF data_writer[s] # None
       THEN Reply(s, "PASV", "-", <<DataConnectionAlreadyOpen>>)
       ELSE /\ wants' = [wants EXCEPT ![s] = TRUE]
            /\ pc' = [pc EXCEPT ![s] = IF PortBusy(s) THEN "dead" ELSE "accept"]
            /\ last' = Did(s, "PASV", "-", <<EnteringPassiveMode>>, <<>>)
            /\ UNCHANGED <<dirs, cwd, name, data_writer>>

\* Command::Pasv: listener.incoming().next() yields the connection of client c
Accept(s, c) ==
    /\ pc[s] = "accept"
    /\ wants[c]
    /\ data_writer' = [data_writer EXCEPT ![s] = c]
    /\ wants' = [wants EXCEPT ![c] = FALSE]
    /\ pc' = [pc EXCEPT ![s] = "ready"]
    /\ last' = Did(s, "PASV", "-", <<EnteringPassiveMode>>, <<>>)
    /\ UNCHANGED <<dirs, cwd, name>>

\* Command::Pasv: listener.incoming().next() yields an error
AcceptFail(s) ==
    /\ pc[s] = "accept"
    /\ pc' = [pc EXCEPT ![s] = "ready"]
    /\ last' = Did(s, "PASV", "-", <<EnteringPassiveMode, ServiceNotAvailable>>, <<>>)
    /\ UNCHANGED <<dirs, cwd, name, data_writer, wants>>

\* the data connection of client c is refused: nothing listens on the passive port
Refused(c) ==
    /\ wants[c]
    /\ \A t \in Sessions : pc[t] # "accept"
    /\ wants' = [wants EXCEPT ![c] = FALSE]
    /\ UNCHANGED <<dirs, cwd, name, data_writer, pc, last>>

\* Command::User
User(s, username) ==
    /\ Ready(s)
    /\ IF username = ""
       THEN Reply(s, "USER", "-", <<InvalidParameterOrArgument>>)
       ELSE /\ name' = [name EXCEPT ![s] = username]
            /\ last' = Did(s, "USER", "-", <<UserLoggedIn>>, <<>>)
            /\ UNCHANGED <<dirs, cwd, data_writer, pc, wants>>

\* Command::Pwd
Pwd(s) ==
    /\ Ready(s)
    /\ IF cwd[s] # PathBuf(FALSE, <<>>)
       THEN Reply(s, "PWD", "-", <<PATHNAMECreated>>)
       ELSE Reply(s, "PWD", "-", <<FileNotFound>>)

\* Command::Noop, Command::Syst, Command::Type
Noop(s) == Ready(s) /\ Reply(s, "NOOP", "-", <<Ok>>)
Syst(s) == Ready(s) /\ Reply(s, "SYST", "-", <<Ok>>)
Type(s) == Ready(s) /\ Reply(s, "TYPE", "-", <<Ok>>)

\* Command::Auth, Command::Unknown
Auth(s) == Ready(s) /\ Reply(s, "AUTH", "-", <<CommandNotImplemented>>)
Unknown(s) == Ready(s) /\ Reply(s, "UNKN", "-", <<CommandNotImplemented>>)

\* ------------------------------------------------------- the control connection
\* a byte is a one-character string; these three stand for '\r', '\n' and a
\* byte that is not valid UTF-8
CR == "CR"
LF == "LF"
BadByte == "0xFF"

Lower == <<"a", "b", "c", "d", "e", "f", "g", "h", "i", "j", "k", "l", "m",
           "n", "o", "p", "q", "r", "s", "t", "u", "v", "w", "x", "y", "z">>
Upper == <<"A", "B", "C", "D", "E", "F", "G", "H", "I", "J", "K", "L", "M",
           "N", "O", "P", "Q", "R", "S", "T", "U", "V", "W", "X", "Y", "Z">>

\* to_uppercase: a byte in 'a'..'z' is lowered by 32, any other byte is kept
to_uppercase(data) ==
    [i \in 1..Len(data) |->
        IF \E k \in 1..Len(Lower) : Lower[k] = data[i]
        THEN Upper[CHOOSE k \in 1..Len(Lower) : Lower[k] = data[i]]
        ELSE data[i]]

\* slice::split: the pieces of q between the bytes equal to sep
RECURSIVE split(_, _)
split(q, sep) ==
    IF \A i \in 1..Len(q) : q[i] # sep THEN <<q>>
    ELSE LET k == CHOOSE i \in 1..Len(q) : q[i] = sep /\ \A j \in 1..(i - 1) : q[j] # sep
         IN  <<SubSeq(q, 1, k - 1)>> \o split(SubSeq(q, k + 1, Len(q)), sep)

\* str::from_utf8 / String::from_utf8 succeed
from_utf8(bytes) == \A i \in 1..Len(bytes) : bytes[i] # BadByte

\* the text that valid UTF-8 bytes stand for
RECURSIVE Concat(_)
Concat(bytes) == IF bytes = <<>> THEN "" ELSE Head(bytes) \o Concat(Tail(bytes))

\* Path::new(text).to_path_buf(): the segments between the slashes
Path_new(bytes) ==
    LET pieces == split(bytes, "/")
        named == SelectSeq(pieces, LAMBDA w : w # <<>>)
        segs == [i \in 1..Len(named) |-> Concat(named[i])]
    IN  PathBuf(bytes # <<>> /\ bytes[1] = "/",
                IF named # <<>> /\ bytes[Len(bytes)] = "/" THEN Append(segs, ".") ELSE segs)

\* what Command::new returns, or that it panics
Parsed(verb, arg) == [ok |-> TRUE, verb |-> verb, arg |-> arg]
Panicked(verb) == [ok |-> FALSE, verb |-> verb, arg |-> <<>>]

\* Command::new
Command_new(input) ==
    LET iter == split(input, " ")
        command == to_uppercase(iter[1])
        data == IF Len(iter) > 1 THEN <<iter[2]>> ELSE <<>>
        path(verb) == IF data = <<>> THEN Panicked(verb)
                      ELSE IF ~from_utf8(data[1]) THEN Panicked(verb)
                      ELSE Parsed(verb, Path_new(data[1]))
    IN  CASE command = <<"A", "U", "T", "H">> -> Parsed("AUTH", <<>>)
          [] command = <<"S", "Y", "S", "T">> -> Parsed("SYST", <<>>)
          [] command = <<"U", "S", "E", "R">> ->
                IF data = <<>> THEN Parsed("USER", "")
                ELSE IF ~from_utf8(data[1]) THEN Panicked("USER")
                ELSE Parsed("USER", Concat(data[1]))
          [] command = <<"N", "O", "O", "P">> -> Parsed("NOOP", <<>>)
          [] command = <<"P", "W", "D">> -> Parsed("PWD", <<>>)
          [] command = <<"T", "Y", "P", "E">> -> Parsed("TYPE", <<>>)
          [] command = <<"P", "A", "S", "V">> -> Parsed("PASV", <<>>)
          [] command = <<"L", "I", "S", "T">> ->
                IF data = <<>> THEN Parsed("LIST", DefaultList) ELSE path("LIST")
          [] command = <<"C", "W", "D">> -> path("CWD")
          [] command = <<"C", "D", "U", "P">> -> Parsed("CDUP", <<>>)
          [] command = <<"M", "K", "D">> -> path("MKD")
          [] command = <<"R", "M", "D">> -> path("RMD")
          [] OTHER -> Parsed("UNKN", IF from_utf8(command) THEN Concat(command) ELSE "")

\* read_all_message, on the bytes the stream yields before it ends or fails:
\* <<>> when the stream ends first, else the line without its "\r\n"
RECURSIVE read_loop(_, _)
read_loop(out, stream) ==
    IF stream = <<>> THEN <<>>
    ELSE IF out = <<>> /\ Head(stream) = " " THEN read_loop(out, Tail(stream))
    ELSE LET pushed == Append(out, Head(stream))
             len == Len(pushed)
         IN  IF len > 1 /\ pushed[len - 1] = CR /\ pushed[len] = LF
             THEN SubSeq(pushed, 1, len - 2)
             ELSE read_loop(pushed, Tail(stream))

read_all_message(stream) == read_loop(<<>>, stream)

\* the command lines a client sends, without their terminator
CommandLines ==
    { <<"C", "W", "D">>,
      <<"c", "w", "d", " ", "a">>,
      <<"C", "W", "D", " ", "/", "a", "/", ".", ".">>,
      <<"C", "W", "D", " ", BadByte>>,
      <<"M", "K", "D">>,
      <<"R", "M", "D">>,
      <<"R", "M", "D", " ", "/">>,
      <<"L", "I", "S", "T">>,
      <<"L", "I", "S", "T", " ", BadByte>>,
      <<"U", "S", "E", "R">>,
      <<"U", "S", "E", "R", " ", "b", "o", "b">>,
      <<"U", "S", "E", "R", " ", BadByte>>,
      <<"N", "o", "o", "p">>,
      <<"x">>,
      <<BadByte>>,
      <<>>,
      <<" ">>,
      <<" ", " ">> }

\* what the control connection yields: a line with its terminator, or the
\* start of a line and then the end of the stream
Streams == {line \o <<CR, LF>> : line \in CommandLines} \cup CommandLines

\* the stream yields a whole line
Terminated(stream) ==
    Len(stream) > 1 /\ stream[Len(stream) - 1] = CR /\ stream[Len(stream)] = LF

\* handle_client: read_all_message returns no data, the loop breaks
Disconnected(s, stream) ==
    /\ Ready(s)
    /\ read_all_message(stream) = <<>>
    /\ pc' = [pc EXCEPT ![s] = "closed"]
    /\ last' = Did(s, "-", IF Terminated(stream) THEN "line" ELSE "eof", <<>>, <<>>)
    /\ UNCHANGED <<dirs, cwd, name, data_writer, wants>>

\* handle_client: Command::new panics on the line read
Abort(s, stream) ==
    /\ Ready(s)
    /\ read_all_message(stream) # <<>>
    /\ ~Command_new(read_all_message(stream)).ok
    /\ Panic(s, Command_new(read_all_message(stream)).verb)

\* the ways the command loop of session s ends at a read
Ends(s) ==
    \/ \E stream \in Streams : Disconnected(s, stream)
    \/ \E stream \in Streams : Abort(s, stream)

\* a command of session s on the file system or the data channel, with a path
\* argument among A
Transfer(s, A) ==
    \/ \E p \in A : Cwd(s, p)
    \/ CdUp(s)
    \/ \E p \in A : Mkd(s, p)
    \/ \E p \in A : Rmd(s, p)
    \/ \E p \in A \cup {DefaultList} : List(s, p)
    \/ Pasv(s)

\* a command of session s that only replies or sets the user name
Control(s) ==
    \/ \E n \in UserNames : User(s, n)
    \/ Pwd(s)
    \/ Noop(s)
    \/ Syst(s)
    \/ Type(s)
    \/ Auth(s)
    \/ Unknown(s)

\* the data connections
Network ==
    \/ \E s, c \in Sessions : Accept(s, c)
    \/ \E s \in Sessions : AcceptFail(s)
    \/ \E c \in Sessions : Refused(c)

\* one client at work, the other connected and silent
Next == Transfer("s1", ClientPaths) \/ Control("s1") \/ Ends("s1") \/ Network

Spec == Init /\ [][Next]_vars

\* two clients at work on the shared directory tree and the shared passive port
NextTwo == (\E s \in Sessions : Transfer(s, FewPaths) \/ Noop(s)) \/ Network

SpecTwo == Init /\ [][NextTwo]_vars

\* ------------------------------------------------------- the claims
\* a location at or below the server root
InRoot(loc) == IsPrefix(ServerRoot, loc)

\* the locations MKD, RMD and LIST hand to create_dir, remove_dir_all and
\* read_dir, for any argument, lie at or below the server root
C1_Targets ==
    \A s \in Sessions, p \in ClientPaths \cup {DefaultList} :
        /\ mkd_creates(dirs, cwd[s], p) => InRoot(mkd_target(dirs, cwd[s], p))
        /\ rmd_removes(dirs, cwd[s], p) => InRoot(rmd_target(dirs, cwd[s], p).path)
        /\ list_target(dirs, cwd[s], p).ok => InRoot(list_target(dirs, cwd[s], p).path)

\* a step changes the directory tree, and writes listing lines, only at or
\* below the server root
C1_Step ==
    /\ \A d \in (dirs' \ dirs) \cup (dirs \ dirs') : InRoot(d)
    /\ \A i \in 1..Len(last'.data) : InRoot(last'.data[i])

C2_Resolver ==
    \A r \in dirs, p \in ClientPaths :
        LET dir == complete_path(dirs, p, r)
        IN  dir.ok => /\ starts_with(dir.path, r)
                      /\ Exists(dirs, dir.path)
                      /\ dir.path \notin Links

\* C2: a path through ".." resolves inside the root, ".." alone and the link
\* are refused, and a missing path is not found
C2_Witness ==
    /\ complete_path(dirs, PathBuf(FALSE, <<"a", "..">>), ServerRoot).ok
    /\ complete_path(dirs, PathBuf(TRUE, <<"a", "a">>), ServerRoot).kind = "NotFound"
    /\ complete_path(dirs, PathBuf(FALSE, <<"..">>), ServerRoot).kind = "PermissionDenied"
    /\ complete_path(dirs, PathBuf(TRUE, <<"l">>), ServerRoot).kind = "PermissionDenied"

\* C3: the cwd of every live session, resolved against the server root, is a
\* location at or below the root (stated here for the states in which the
\* server root itself still exists).
C3_CwdResolves ==
    \A s \in Sessions :
        (pc[s] # "dead" /\ ~RootGone) =>
            LET dir == complete_path(dirs, cwd[s], ServerRoot)
            IN  dir.ok /\ InRoot(dir.path)

\* a CWD whose target does not resolve
C4_Step ==
    \A s \in Sessions, p \in ClientPaths :
        (Cwd(s, p) /\ ~cwd_target(dirs, cwd[s], p).ok) =>
            /\ last'.codes = <<FileNotFound>>
            /\ pc'[s] = "ready"
            /\ cwd' = cwd /\ name' = name /\ data_writer' = data_writer

\* C4: a CWD whose target does not resolve replies FileNotFound, leaves cwd,
\* name and data_writer as they were, and the session reads its next command.
C4_FailedCwd == [][C4_Step]_vars

\* a PASV in a session that holds a stream
C5_Step ==
    \A s \in Sessions :
        (Pasv(s) /\ data_writer[s] # None) =>
            /\ last'.codes = <<DataConnectionAlreadyOpen>>
            /\ pc'[s] = "ready"
            /\ wants' = wants
            /\ data_writer' = data_writer

\* C5: a PASV issued while data_writer holds a stream replies
\* DataConnectionAlreadyOpen, binds no listener (the session does not go on to
\* accept, no data connection is invited) and keeps the stream it holds.
C5_SecondPasv == [][C5_Step]_vars

\* C5: a PASV was just rejected in a session that holds a stream
C5_Witness ==
    /\ last.cmd = "PASV"
    /\ last.codes = <<DataConnectionAlreadyOpen>>
    /\ data_writer[last.s] # None

\* the session of the last LIST, back at its command loop, holds no stream
C6_State ==
    (last.cmd = "LIST" /\ pc[last.s] = "ready") => data_writer[last.s] = None

\* a PASV right after a LIST is not rejected
C6_Step ==
    \A s \in Sessions :
        (last.cmd = "LIST" /\ last.s = s /\ Pasv(s)) =>
            last'.codes = <<EnteringPassiveMode>>

\* C6: once a LIST has returned to the command loop, data_writer is absent,
\* whatever the LIST replied, and a PASV that follows it is not rejected.
C6_Cleared == []C6_State /\ [][C6_Step]_vars

\* C6: a LIST with an open channel and a path outside the root has returned
C6_Witness ==
    /\ last.cmd = "LIST"
    /\ last.kind = "PermissionDenied"
    /\ last.codes = <<DataConnectionAlreadyOpen, ClosingDataConnection>>
    /\ pc[last.s] = "ready"

\* a LIST that writes data, and a LIST in a session without a stream
C7_Step ==
    \A s \in Sessions, p \in ClientPaths \cup {DefaultList} :
        /\ (List(s, p) /\ last'.data # <<>>) =>
                (data_writer[s] # None /\ data_writer'[s] = None)
        /\ (List(s, p) /\ data_writer[s] = None) =>
                /\ last'.codes = <<ConnectionClosed>>
                /\ last'.data = <<>>
                /\ cwd' = cwd /\ name' = name /\ data_writer' = data_writer

\* C7: a LIST writes listing data only to a stream that a PASV stored and
\* that it then drops; a LIST without a stream replies ConnectionClosed,
\* writes no data and changes no field of the session.
C7_OneTransfer == [][C7_Step]_vars

\* d names an existing directory directly below the directory c stands for
IsSubdir(fs, c, d) ==
    LET here == complete_path(fs, c, ServerRoot)
        there == cwd_target(fs, c, PathBuf(FALSE, <<d>>))
    IN  here.ok /\ there.ok /\ IsDir(fs, there.path) /\ there.path = Append(here.path, d)

\* C8: from the cwd c of any session and any subdirectory d of c, CWD d and
\* then CDUP, or CWD d and then CWD .., give c again; at "/" CDUP gives "/".
C8_RoundTrip ==
    \A s \in Sessions :
        /\ \A d \in Segments \ {".."} :
              IsSubdir(dirs, cwd[s], d) =>
                  LET sub == cwd_after(dirs, cwd[s], PathBuf(FALSE, <<d>>))
                  IN  /\ cdup_after(sub) = cwd[s]
                      /\ cwd_after(dirs, sub, PathBuf(FALSE, <<"..">>)) = cwd[s]
        /\ cwd[s] = PathBuf(TRUE, <<>>) => cdup_after(cwd[s]) = cwd[s]

\* C9: the cwd of every session is in the form that starts with "/".
C9_RootRelative == \A s \in Sessions : cwd[s].abs

\* an RMD with a relative path, in a session whose cwd is a directory, that
\* leaves the server root in place
C10_Step ==
    \A s \in Sessions, p \in ClientPaths :
        (/\ ~p.abs
         /\ IsDir(dirs, complete_path(dirs, cwd[s], ServerRoot).path)
         /\ Rmd(s, p)
         /\ last'.codes = <<RequestedFileActionOkay>>
         /\ ~RootGone') =>
            LET want == complete_path(dirs, Join(cwd[s], p), ServerRoot)
            IN  want.ok /\ dirs' = remove_dir_all(dirs, want.path)

\* C10: an RMD with a relative path that replies RequestedFileActionOkay has
\* removed the directory that cwd joined with the path resolves to.
C10_RmdTarget == [][C10_Step]_vars

\* C11: from the cwd of any session, a successful MKD p followed at once by
\* RMD p with the same argument leaves the directory tree (the entries of the
\* parent and of every other directory below the server root) as it was.
C11_MkdRmd ==
    \A s \in Sessions, p \in ClientPaths :
        (~RootGone /\ mkd_creates(dirs, cwd[s], p)) =>
            rmd_after(mkd_after(dirs, cwd[s], p), cwd[s], p) = dirs

\* a step in which Command::new is applied to a line read from the control
\* connection, in a session that Command::new ends
C12_Step ==
    \A s \in Sessions, stream \in Streams :
        Abort(s, stream) =>
            /\ Command_new(read_all_message(stream)).ok
            /\ pc'[s] = "ready"

\* C12: for every non-empty line read from the control connection (any verb,
\* argument present or absent, valid UTF-8 or not) Command::new yields a
\* Command, and the session is not ended by it.
C12_Total == [][C12_Step]_vars

\* a step in which the command loop of a session is left
C13_Step ==
    \A s \in Sessions :
        (pc[s] = "ready" /\ pc'[s] = "closed") => (last'.s = s /\ last'.kind = "eof")

\* C13: the command loop of a session is left only when the control
\* connection ends or fails: a read that yields a terminated line, be it empty
\* or made of spaces, is followed by the read of the next line.
C13_OnlyAtEof == [][C13_Step]_vars

\* a reply code is among those written
Replied(codes, code) == \E i \in 1..Len(codes) : codes[i] = code

\* a PASV, in a session without a stream, that finds the passive port held
C14_Step ==
    \A s \in Sessions :
        (Pasv(s) /\ data_writer[s] = None /\ PortBusy(s)) =>
            /\ Replied(last'.codes, ServiceNotAvailable)
            /\ data_writer'[s] = None
            /\ pc'[s] = "ready"

\* C14: a PASV whose listener cannot be bound, the passive port being held by
\* the pending PASV of another session, replies ServiceNotAvailable, leaves
\* data_writer absent, and the session reads its next command.
C14_BindFails == [][C14_Step]_vars

\* a LIST with an open data channel whose path does not resolve
C15_Step ==
    \A s \in Sessions, p \in ClientPaths \cup {DefaultList} :
        (/\ ~RootGone
         /\ List(s, p)
         /\ data_writer[s] # None
         /\ ~list_target(dirs, cwd[s], p).ok) =>
            /\ Replied(last'.codes, FileNotFound)
            /\ last'.data = <<>>

\* C15: a LIST with an open data channel whose path is missing or resolves
\* outside the server root replies FileNotFound and writes no listing data.
C15_ListNotFound == [][C15_Step]_vars

\* a LIST with an open data channel whose target is a file
C16_Step ==
    \A s \in Sessions, p \in ClientPaths \cup {DefaultList} :
        (/\ ~RootGone
         /\ List(s, p)
         /\ data_writer[s] # None
         /\ list_target(dirs, cwd[s], p).ok
         /\ list_target(dirs, cwd[s], p).path \in Files) =>
            last'.data = <<list_target(dirs, cwd[s], p).path>>

\* C16: a LIST with an open data channel whose target is a single file writes
\* exactly one listing line, the line of that file, to the data channel.
C16_ListFile == [][C16_Step]_vars

\* the entries of a directory for which add_file_info writes a line
Readable(fs, loc) == {e \in Entries(fs, loc) : HasMetadata(fs, e)}

\* a LIST with an open data channel whose target is a directory
C17_Step ==
    \A s \in Sessions, p \in ClientPaths \cup {DefaultList} :
        (/\ ~RootGone
         /\ List(s, p)
         /\ data_writer[s] # None
         /\ list_target(dirs, cwd[s], p).ok
         /\ IsDir(dirs, list_target(dirs, cwd[s], p).path)) =>
            LET readable == Readable(dirs, list_target(dirs, cwd[s], p).path)
            IN  /\ Len(last'.data) = Cardinality(readable)
                /\ {last'.data[i] : i \in 1..Len(last'.data)} = readable

\* C17: a LIST with an open data channel whose target is a directory with n
\* readable entries writes exactly n listing lines, one for each entry and
\* none twice, for every n >= 0.
C17_ListDirectory == [][C17_Step]_vars

\* a session blocked in the accept of its PASV holds no stream
C18_State == \A s \in Sessions : pc[s] = "accept" => data_writer[s] = None

\* what a step may do to a session that is not at the read of a line: nothing,
\* but complete the PASV it is blocked in
C18_Step ==
    \A s \in Sessions :
        pc[s] # "ready" =>
            /\ cwd'[s] = cwd[s]
            /\ name'[s] = name[s]
            /\ (pc'[s] # pc[s] \/ data_writer'[s] # data_writer[s]
                    \/ (last' # last /\ last'.s = s)) =>
                  /\ pc[s] = "accept"
                  /\ pc'[s] = "ready"
                  /\ last'.s = s
                  /\ last'.cmd = "PASV"
                  /\ last'.codes \in {<<EnteringPassiveMode>>,
                                      <<EnteringPassiveMode, ServiceNotAvailable>>}

\* C18: a session handles its commands one at a time: a command is read only
\* when the handler before it has written all its replies and returned, and
\* while a PASV is blocked in accept no command of that session is read or
\* answered; the session goes on when a peer connects or the accept fails.
C18_OneAtATime == []C18_State /\ [][C18_Step]_vars

\* C18: a blocked PASV has ended with a failed accept, after the 227 and then
\* the 421 were written, and the session is back at its read
C18_Witness ==
    /\ last.cmd = "PASV"
    /\ last.codes = <<EnteringPassiveMode, ServiceNotAvailable>>
    /\ pc[last.s] = "ready"
    /\ data_writer[last.s] = None

\* an RMD that replies RequestedFileActionOkay
C19_Step ==
    \A s \in Sessions, p \in ClientPaths :
        (Rmd(s, p) /\ last'.codes = <<RequestedFileActionOkay>>) =>
            /\ InRoot(rmd_target(dirs, cwd[s], p).path)
            /\ rmd_target(dirs, cwd[s], p).path # ServerRoot
            /\ ServerRoot \in dirs'

\* C19: every RMD that replies RequestedFileActionOkay has removed a directory
\* strictly below the server root, for every argument ("/" and the paths that
\* resolve to the root included): the server root itself is never removed.
C19_RootKept == [][C19_Step]_vars

\* C20: with two sessions whose clients interleave PASV commands and data
\* connections in any order, the stream a session stores in data_writer is a
\* connection of its own client, made after its own PASV reply.
C20_OwnPeer == \A s \in Sessions : data_writer[s] \in {None, s}

====
